---- MODULE Spec2Model ----
(***************************************************************************)
(* A model of cblt's request-routing and connection-handling engine        *)
(* (src/src/main.rs): bootstrap of the port -> Server map, the per-port    *)
(* accept loop, header framing, host selection and the directive scan.     *)
(*                                                                         *)
(* Strings are sequences of one-character strings, so that prefix tests,   *)
(* splitting and trimming are computed rather than assumed.  An Option is  *)
(* a sequence of length 0 (None) or 1 (Some).                              *)
(***************************************************************************)
EXTENDS Integers, Sequences, FiniteSets, TLC

VARIABLES
    call,       \* the arguments of the call under examination (the parsed
                \* configuration, for main)
    ret,        \* None before the call, Some(outcome) after it
    main_pc,    \* where main is: "boot", "running", "aborted", "exited"
    servers,    \* main's `servers`: port -> Server, once built
    task,       \* port -> the state of the task spawned for that Server
    accepted,   \* port -> connections the task's listener has accepted
    finished,   \* port -> connections whose handling has come to its end
    lastconn    \* port -> None, or Some(what became of the last connection)

vars == <<call, ret, main_pc, servers, task, accepted, finished, lastconn>>
server_vars == <<main_pc, servers, task, accepted, finished, lastconn>>

(***************************************************************************)
(* Bounds of the model.                                                    *)
(***************************************************************************)
MaxPathLen == 3
MaxDirs == 3
MaxHosts == 3
MaxStream == 5
MaxHostLen == 4
MaxConns == 2
MaxPieces == 3

(***************************************************************************)
(* Strings and options.                                                    *)
(***************************************************************************)
None == <<>>
Some(x) == <<x>>
is_some(o) == Len(o) = 1
unwrap(o) == o[1]

RECURSIVE Strs(_, _)
Strs(A, n) ==
    IF n = 0 THEN {<<>>}
    ELSE LET S == Strs(A, n - 1)
         IN  S \cup {Append(s, c) : s \in {t \in S : Len(t) = n - 1}, c \in A}

starts_with(s, p) == Len(p) <= Len(s) /\ SubSeq(s, 1, Len(p)) = p
ends_with(s, p) == Len(p) <= Len(s) /\ SubSeq(s, Len(s) - Len(p) + 1, Len(s)) = p

RECURSIVE trim_start_matches(_, _)
trim_start_matches(s, c) ==
    IF s # <<>> /\ s[1] = c THEN trim_start_matches(Tail(s), c) ELSE s

\* str::replace: every non-overlapping occurrence of `from`, left to right.
RECURSIVE replace(_, _, _)
replace_first(s, from, to) ==
    LET at == {i \in 1..Len(s) : starts_with(SubSeq(s, i, Len(s)), from)}
    IN  IF from = <<>> \/ at = {} THEN s
        ELSE LET i == CHOOSE x \in at : \A y \in at : x <= y
             IN  SubSeq(s, 1, i - 1) \o to \o SubSeq(s, i + Len(from), Len(s))

replace(s, from, to) ==
    IF s = <<>> THEN <<>>
    ELSE IF from # <<>> /\ starts_with(s, from)
         THEN to \o replace(SubSeq(s, Len(from) + 1, Len(s)), from, to)
         ELSE <<s[1]>> \o replace(Tail(s), from, to)

\* PathBuf::push on a Unix path.
PathPush(buf, rel) ==
    IF rel # <<>> /\ rel[1] = "/" THEN rel
    ELSE IF buf = <<>> \/ buf[Len(buf)] = "/" THEN buf \o rel
    ELSE buf \o <<"/">> \o rel

(***************************************************************************)
(* matches_pattern                                                         *)
(***************************************************************************)
matches_pattern_by_prefix(pattern, path) ==
    IF pattern = <<"*">> THEN TRUE
    ELSE IF ends_with(pattern, <<"*">>)
         THEN starts_with(path, SubSeq(pattern, 1, Len(pattern) - 1))
         ELSE starts_with(path, pattern)

matches_pattern(pattern, path) ==
    IF pattern = <<"*">> THEN TRUE
    ELSE IF ends_with(pattern, <<"*">>)
         THEN starts_with(path, SubSeq(pattern, 1, Len(pattern) - 1))
         ELSE pattern = path

(***************************************************************************)
(* Status codes and responses.                                             *)
(***************************************************************************)
OK == 200
FOUND == 302
BAD_REQUEST == 400
FORBIDDEN == 403
NOT_FOUND == 404
INTERNAL_SERVER_ERROR == 500
BAD_GATEWAY == 502

Response(status, location, content_length, mirrored, body, file) ==
    [status |-> status, location |-> location, content_length |-> content_length,
     mirrored |-> mirrored, body |-> body, file |-> file]

error_response(status) == Response(status, None, None, None, <<>>, None)

file_response(file, content_length) ==
    Response(OK, None, Some(content_length), None, <<>>, Some(file))

\* One write to the socket: the response, the directive (0: none) that
\* produced it, and whether the write reached the client.  The caller drops
\* the Result of the write (`let _ = ...`).
send_response(response, src, wok) ==
    [resp |-> response, src |-> src, delivered |-> wok]

(***************************************************************************)
(* Directives.                                                             *)
(***************************************************************************)
Root(pattern, path) == [kind |-> "Root", pattern |-> pattern, path |-> path]
FileServer == [kind |-> "FileServer"]
ReverseProxy(pattern, destination) ==
    [kind |-> "ReverseProxy", pattern |-> pattern, destination |-> destination]
Redir(destination) == [kind |-> "Redir", destination |-> destination]
Tls(cert, key) == [kind |-> "Tls", cert |-> cert, key |-> key]

(***************************************************************************)
(* The environment a request meets.                                        *)
(*   fs:  whether root/path is a directory, whether File::open of the      *)
(*        target succeeds, the file's size, whether metadata() succeeds.   *)
(*   up:  whether send() to the upstream returns Ok, the upstream's        *)
(*        status, headers and body, whether reading the body succeeds.     *)
(*   wok: whether writes to the client socket succeed.                     *)
(***************************************************************************)
FsOutcomes == [dir : BOOLEAN, opens : BOOLEAN, size : {0, 7}, meta : BOOLEAN]
UpOutcomes ==
    [send : BOOLEAN, status : {200, 404}, headers : {"h"},
     body : {<<>>, <<"p", "q">>}, bytes : BOOLEAN]

\* A request consumes at most one of fs and up (each is read by a terminal
\* directive only), so the environments vary one of them at a time.
QuietFs == [dir |-> FALSE, opens |-> FALSE, size |-> 0, meta |-> TRUE]
QuietUp == [send |-> FALSE, status |-> 200, headers |-> "h", body |-> <<>>,
            bytes |-> TRUE]
Envs ==
    {[fs |-> f, up |-> QuietUp, wok |-> w] : f \in FsOutcomes, w \in BOOLEAN}
    \cup {[fs |-> QuietFs, up |-> u, wok |-> w] : u \in UpOutcomes, w \in BOOLEAN}

(***************************************************************************)
(* file_size and file_server                                               *)
(***************************************************************************)
\* None stands for the panic of `file.metadata().await.unwrap()`.
file_size(fs) == IF fs.meta THEN Some(fs.size) ELSE None

INDEX_HTML == <<"i", "n", "d", "e", "x", ".", "h", "t", "m", "l">>

file_path(root, path, fs) ==
    LET joined == PathPush(root, trim_start_matches(path, "/"))
    IN  IF fs.dir THEN PathPush(joined, INDEX_HTML) ELSE joined

\* The outcome of one terminal step: what was written, whether `handled`
\* was set, whether the task panicked.
Step(written, handled, panicked) ==
    [written |-> written, handled |-> handled, panicked |-> panicked]

file_server(root_path, path, fs, src, wok) ==
    IF is_some(root_path)
    THEN LET target == file_path(unwrap(root_path), path, fs)
         IN  IF fs.opens
             THEN LET content_length == file_size(fs)
                  IN  IF is_some(content_length)
                      THEN Step(<<send_response(
                                    file_response(target, unwrap(content_length)),
                                    src, wok)>>, TRUE, FALSE)
                      ELSE Step(<<>>, FALSE, TRUE)
             ELSE Step(<<send_response(error_response(NOT_FOUND), src, wok)>>,
                       TRUE, FALSE)
    ELSE Step(<<send_response(error_response(INTERNAL_SERVER_ERROR), src, wok)>>,
              TRUE, FALSE)

(***************************************************************************)
(* The ReverseProxy and Redir arms of directive_process.                   *)
(***************************************************************************)
reverse_proxy(up, src, wok) ==
    IF up.send
    THEN LET body == IF up.bytes THEN up.body ELSE <<>>
         IN  Step(<<send_response(
                       Response(up.status, None, None, Some(up.headers), body, None),
                       src, wok)>>, TRUE, FALSE)
    ELSE Step(<<send_response(error_response(BAD_GATEWAY), src, wok)>>, TRUE, FALSE)

URI_TOKEN == <<"{", "u", "r", "i", "}">>

redir(destination, path, src, wok) ==
    LET dest == replace(destination, URI_TOKEN, path)
    IN  Step(<<send_response(Response(FOUND, Some(dest), None, None, <<>>, None),
                             src, wok)>>, TRUE, FALSE)

(***************************************************************************)
(* The directive loop of directive_process (`for directive in              *)
(* host_config`), from directive i on.  The outcome records, besides what  *)
(* the loop did, what it looked at:                                        *)
(*   evaluated: the indices of the directives the loop matched on;         *)
(*   fs_root:   Some(root_path) as handed to file_server, if it was called;*)
(*   fs_seen, up_seen: the environment outcomes it consumed.               *)
(***************************************************************************)
Outcome(step, fs_root, fs_seen, up_seen) ==
    [evaluated |-> <<>>, written |-> step.written, handled |-> step.handled,
     panicked |-> step.panicked, fs_root |-> fs_root, fs_seen |-> fs_seen,
     up_seen |-> up_seen]

\* The Root arm (lines 181-187): the root_path the scan goes on with.
root_arm_unconditional(directive, root_path, path) == Some(directive.path)

root_arm(directive, root_path, path) ==
    IF matches_pattern(directive.pattern, path)
    THEN Some(directive.path)
    ELSE root_path

\* The test of the ReverseProxy arm (line 200).
proxy_matches_always(directive, path) == TRUE

proxy_matches(directive, path) == matches_pattern(directive.pattern, path)

RECURSIVE directive_loop(_, _, _, _, _, _, _)
directive_loop(host_config, i, root_path, path, fs, up, wok) ==
    IF i > Len(host_config)
    THEN Outcome(Step(<<>>, FALSE, FALSE), None, None, None)
    ELSE LET directive == host_config[i]
             rest(rp) == directive_loop(host_config, i + 1, rp, path, fs, up, wok)
             out ==
               CASE directive.kind = "Root" ->
                      rest(root_arm(directive, root_path, path))
                 [] directive.kind = "FileServer" ->
                      Outcome(file_server(root_path, path, fs, i, wok),
                              Some(root_path), Some(fs), None)
                 [] directive.kind = "ReverseProxy" ->
                      IF proxy_matches(directive, path)
                      THEN Outcome(reverse_proxy(up, i, wok), None, None, Some(up))
                      ELSE rest(root_path)
                 [] directive.kind = "Redir" ->
                      Outcome(redir(directive.destination, path, i, wok),
                              None, None, None)
                 [] directive.kind = "Tls" -> rest(root_path)
         IN  [out EXCEPT !.evaluated = <<i>> \o @]

\* The loop followed by the fallback of lines 253-256.
dispatch(host_config, path, fs, up, wok) ==
    LET out == directive_loop(host_config, 1, None, path, fs, up, wok)
    IN  IF ~out.handled /\ ~out.panicked
        THEN [out EXCEPT !.written =
                 @ \o <<send_response(error_response(NOT_FOUND), 0, wok)>>]
        ELSE out

(***************************************************************************)
(* read_from_socket.  A connection's inbound side is the bytes the client  *)
(* sends (stream) and how the stream ends (close): "eof" is a clean close, *)
(* after which a read returns 0 bytes; "error" is a failed read            *)
(* (connection reset, TLS stream cut without close_notify).                *)
(* Bytes: "G" an ASCII byte, CR, LF, and "xFF", a byte that is not UTF-8.  *)
(***************************************************************************)
CR == "CR"
LF == "LF"
Bytes == {"G", CR, LF, "xFF"}
CRLFCRLF == <<CR, LF, CR, LF>>
Closes == {"eof", "error"}

Min(S) == CHOOSE x \in S : \A y \in S : x <= y
Max(S) == CHOOSE x \in S : \A y \in S : x >= y

\* The bytes one `read_until(b'\n', ..)` appends: through the next LF, or
\* all that is left of the stream.
read_until(rest) ==
    LET at == {i \in 1..Len(rest) : rest[i] = LF}
    IN  IF at = {} THEN rest ELSE SubSeq(rest, 1, Min(at))

\* The loop of lines 268-277.  panicked: the `.unwrap()` of a failed read.
RECURSIVE read_loop(_, _, _, _)
read_loop(buf, n, rest, close) ==
    LET chunk == read_until(rest)
        bytes_read == Len(chunk)
        grown == buf \o chunk
        read_failed == close = "error" /\ bytes_read = Len(rest)
                       /\ (chunk = <<>> \/ chunk[bytes_read] # LF)
    IN  IF read_failed THEN [panicked |-> TRUE, buf |-> grown, n |-> n]
        ELSE IF bytes_read = 0 THEN [panicked |-> FALSE, buf |-> grown, n |-> n]
        ELSE IF ends_with(grown, CRLFCRLF)
             THEN [panicked |-> FALSE, buf |-> grown, n |-> n + bytes_read]
             ELSE read_loop(grown, n + bytes_read,
                            SubSeq(rest, bytes_read + 1, Len(rest)), close)

\* str::from_utf8
from_utf8(bytes) ==
    IF \E i \in 1..Len(bytes) : bytes[i] = "xFF" THEN None ELSE Some(bytes)

\* request::parse_request: the tokenizer's reading of a complete header
\* block (tokens: None when it rejects the block), None for a block that
\* does not end in the blank line.
parse_request(req_str, tokens) ==
    IF ends_with(req_str, CRLFCRLF) THEN tokens ELSE None

\* buf: Some(the bytes `&buf[..n]` the loop handed on to be decoded and
\* parsed), None when the loop did not end.
Framed(request, written, panicked, buf) ==
    [request |-> request, written |-> written, panicked |-> panicked, buf |-> buf]

read_from_socket(stream, close, tokens, wok) ==
    LET read == read_loop(<<>>, 0, stream, close)
    IN  IF read.panicked THEN Framed(None, <<>>, TRUE, None)
        ELSE LET handed == SubSeq(read.buf, 1, read.n)
                 req_str == from_utf8(handed)
             IN  IF ~is_some(req_str)
                 THEN Framed(None,
                             <<send_response(error_response(BAD_REQUEST), 0, wok)>>,
                             FALSE, Some(handed))
                 ELSE LET request == parse_request(unwrap(req_str), tokens)
                      IN  IF ~is_some(request)
                          THEN Framed(None,
                                 <<send_response(error_response(BAD_REQUEST), 0, wok)>>,
                                 FALSE, Some(handed))
                          ELSE Framed(request, <<>>, FALSE, Some(handed))

(***************************************************************************)
(* Host selection (lines 153-174).  A request is its Host header (an       *)
(* Option) and its URI path.  "~" stands for a character that is not       *)
(* visible ASCII, on which HeaderValue::to_str fails.                      *)
(***************************************************************************)
Request(host, path) == [host |-> host, path |-> path]

to_str(value) ==
    IF \E i \in 1..Len(value) : value[i] = "~" THEN None ELSE Some(value)

\* Lines 153-156.
host_header(request) ==
    IF is_some(request.host)
    THEN LET h == to_str(unwrap(request.host))
         IN  IF is_some(h) THEN unwrap(h) ELSE <<>>
    ELSE <<>>

WildcardKeys(hosts) == {k \in DOMAIN hosts : starts_with(k, <<"*">>)}

\* Lines 159-174: Some(key of the entry whose directives run) or None (403).
\* `first` is the wildcard key the HashMap's iteration meets first.
select_host_exact_first(hosts, host, first) ==
    IF host \in DOMAIN hosts THEN Some(host)
    ELSE IF WildcardKeys(hosts) # {} THEN Some(first)
    ELSE None

select_host_or_any(hosts, host, first) ==
    IF WildcardKeys(hosts) # {} THEN Some(first)
    ELSE IF host \in DOMAIN hosts THEN Some(host)
    ELSE Some(CHOOSE k \in DOMAIN hosts : TRUE)

select_host(hosts, host, first) ==
    IF WildcardKeys(hosts) # {} THEN Some(first)
    ELSE IF host \in DOMAIN hosts THEN Some(host)
    ELSE None

(***************************************************************************)
(* directive_process: framing, host selection, the directive scan and the  *)
(* fallback.  The outcome keeps the request, the key selected, the         *)
(* directive list that ran and the scan's own outcome.                     *)
(***************************************************************************)
Processed(request, selected, host_config, scan, written, panicked, buf) ==
    [request |-> request, selected |-> selected, host_config |-> host_config,
     scan |-> scan, written |-> written, panicked |-> panicked, buf |-> buf]

directive_process(server, stream, close, tokens, first, env) ==
    LET framed == read_from_socket(stream, close, tokens, env.wok)
    IN  IF ~is_some(framed.request)
        THEN Processed(None, None, None, None, framed.written, framed.panicked,
                       framed.buf)
        ELSE LET request == unwrap(framed.request)
                 selected == select_host(server.hosts, host_header(request), first)
             IN  IF ~is_some(selected)
                 THEN Processed(framed.request, None, None, None,
                                <<send_response(error_response(FORBIDDEN), 0, env.wok)>>,
                                FALSE, framed.buf)
                 ELSE LET host_config == server.hosts[unwrap(selected)]
                          scan == dispatch(host_config, request.path,
                                           env.fs, env.up, env.wok)
                      IN  Processed(framed.request, selected, Some(host_config),
                                    Some(scan), scan.written, scan.panicked,
                                    framed.buf)

\* The wildcard keys `find` may return (any key when there is none: the
\* value is then not used).
FirstWildcards(hosts) ==
    IF WildcardKeys(hosts) = {} THEN {CHOOSE k \in DOMAIN hosts : TRUE}
    ELSE WildcardKeys(hosts)

(***************************************************************************)
(* Server, and main's bootstrap of the port -> Server map (lines 52-87).   *)
(***************************************************************************)
Server(port, hosts, cert, key) ==
    [port |-> port, hosts |-> hosts, cert |-> cert, key |-> key]

HTTP_PORT == 80
HTTPS_PORT == 443
U16_MAX == 65535

contains(s, c) == \E i \in 1..Len(s) : s[i] = c

\* str::split(c), collected.
RECURSIVE split(_, _)
split(s, c) ==
    IF ~contains(s, c) THEN <<s>>
    ELSE LET i == Min({j \in 1..Len(s) : s[j] = c})
         IN  <<SubSeq(s, 1, i - 1)>> \o split(SubSeq(s, i + 1, Len(s)), c)

DigitChars == {"0", "1", "2", "3", "4", "5", "6", "7", "8", "9"}
digit(ch) ==
    CASE ch = "0" -> 0 [] ch = "1" -> 1 [] ch = "2" -> 2 [] ch = "3" -> 3
      [] ch = "4" -> 4 [] ch = "5" -> 5 [] ch = "6" -> 6 [] ch = "7" -> 7
      [] ch = "8" -> 8 [] ch = "9" -> 9

RECURSIVE decimal(_)
decimal(s) ==
    IF s = <<>> THEN 0
    ELSE 10 * decimal(SubSeq(s, 1, Len(s) - 1)) + digit(s[Len(s)])

\* str::parse::<u16>: None is the Err that line 67 unwraps.
parse_u16(s) ==
    LET digits == IF s # <<>> /\ s[1] = "+" THEN Tail(s) ELSE s
    IN  IF digits = <<>> \/ \E i \in 1..Len(digits) : digits[i] \notin DigitChars
        THEN None
        ELSE IF decimal(digits) > U16_MAX THEN None ELSE Some(decimal(digits))

\* Lines 55-64: the for_each over the host's directives.
RECURSIVE tls_scan(_, _, _)
tls_scan(directives, i, acc) ==
    IF i > Len(directives) THEN acc
    ELSE IF directives[i].kind = "Tls"
         THEN tls_scan(directives, i + 1,
                       [port |-> HTTPS_PORT, cert_path |-> Some(directives[i].cert),
                        key_path |-> Some(directives[i].key)])
         ELSE tls_scan(directives, i + 1, acc)

\* Lines 55-68: the port, cert and key inferred for one host; None is the
\* panic of `parts[1].parse().unwrap()`.
infer_tls_over_suffix(host, directives) ==
    LET tls == tls_scan(directives, 1,
                        [port |-> HTTP_PORT, cert_path |-> None, key_path |-> None])
    IN  IF contains(host, ":") /\ tls.port # HTTPS_PORT
        THEN LET port == parse_u16(split(host, ":")[2])
             IN  IF is_some(port) THEN Some([tls EXCEPT !.port = unwrap(port)])
                 ELSE None
        ELSE Some(tls)

infer(host, directives) ==
    LET tls == tls_scan(directives, 1,
                        [port |-> HTTP_PORT, cert_path |-> None, key_path |-> None])
    IN  IF contains(host, ":")
        THEN LET port == parse_u16(split(host, ":")[2])
             IN  IF is_some(port) THEN Some([tls EXCEPT !.port = unwrap(port)])
                 ELSE None
        ELSE Some(tls)

\* HashMap::insert
insert(map, k, v) == [x \in DOMAIN map \cup {k} |-> IF x = k THEN v ELSE map[x]]

\* Lines 70-86: servers.entry(port).and_modify(..).or_insert(..)
merge_replacing_hosts(srvs, host, directives, inferred) ==
    insert(srvs, inferred.port,
           Server(inferred.port, insert(<<>>, host, directives),
                  inferred.cert_path, inferred.key_path))

merge_bare_keys(srvs, host, directives, inferred) ==
    LET port == inferred.port
        bare == split(host, ":")[1]
    IN  IF port \in DOMAIN srvs
        THEN [srvs EXCEPT ![port] =
                 [@ EXCEPT !.hosts = insert(@, bare, directives),
                           !.cert = inferred.cert_path,
                           !.key = inferred.key_path]]
        ELSE insert(srvs, port,
                    Server(port, insert(<<>>, bare, directives),
                           inferred.cert_path, inferred.key_path))

merge(srvs, host, directives, inferred) ==
    LET port == inferred.port
    IN  IF port \in DOMAIN srvs
        THEN [srvs EXCEPT ![port] =
                 [@ EXCEPT !.hosts = insert(@, host, directives),
                           !.cert = inferred.cert_path,
                           !.key = inferred.key_path]]
        ELSE insert(srvs, port,
                    Server(port, insert(<<>>, host, directives),
                           inferred.cert_path, inferred.key_path))

\* The loop of lines 54-87 over the hosts in the order the configuration
\* yields them, from the i-th on.  aborted: main panicked.
RECURSIVE bootstrap(_, _, _, _)
bootstrap(config, order, i, srvs) ==
    IF i > Len(order) THEN [servers |-> srvs, aborted |-> FALSE]
    ELSE LET host == order[i]
             inferred == infer(host, config[host])
         IN  IF ~is_some(inferred) THEN [servers |-> srvs, aborted |-> TRUE]
             ELSE bootstrap(config, order, i + 1,
                            merge(srvs, host, config[host], unwrap(inferred)))

\* The orders in which `for (host, directives) in config` may yield a set of
\* hosts.
Orders(S) ==
    {o \in [1..Cardinality(S) -> S] : \A i, j \in 1..Cardinality(S) : o[i] = o[j] => i = j}

\* The server variables while no server runs (the single-call
\* specifications).
NoServer ==
    /\ main_pc = "off" /\ servers = <<>> /\ task = <<>>
    /\ accepted = <<>> /\ finished = <<>> /\ lastconn = <<>>

(***************************************************************************)
(* Inputs of the directive scan.                                           *)
(***************************************************************************)
PathChars == {"/", "a"}
Paths == {p \in Strs(PathChars, MaxPathLen) : p # <<>> /\ p[1] = "/"}
RootPatterns == {<<"*">>, <<"/", "a", "*">>}
ProxyPatterns == {<<"/", "a", "*">>, <<"/", "a">>}
RootDirs == {<<"w">>, <<"i">>}
Upstream == <<"u">>
RedirDest == <<"/", "g", "/">> \o URI_TOKEN
Directives ==
    {Root(p, d) : p \in RootPatterns, d \in RootDirs}
    \cup {FileServer}
    \cup {ReverseProxy(p, Upstream) : p \in ProxyPatterns}
    \cup {Redir(RedirDest), Tls("c", "k")}
DirectiveLists == Strs(Directives, MaxDirs)

(***************************************************************************)
(* SpecScan: the directive scan applied to every bounded directive list    *)
(* and request path, under every environment.                              *)
(***************************************************************************)
ScanInit ==
    /\ call \in [host_config : DirectiveLists, path : Paths]
    /\ ret = None
    /\ NoServer

Scan ==
    /\ ret = None
    /\ \E env \in Envs :
         ret' = Some(dispatch(call.host_config, call.path, env.fs, env.up, env.wok))
    /\ UNCHANGED <<call, server_vars>>

ScanNext == Scan

SpecScan == ScanInit /\ [][ScanNext]_vars

(***************************************************************************)
(* Claims about the directive scan (checked under SpecScan).               *)
(***************************************************************************)
scanned == is_some(ret)
out == unwrap(ret)

\* A directive that ends the scan for this path: FileServer, Redir, or a
\* ReverseProxy whose pattern matches.
Terminal(d, path) ==
    \/ d.kind \in {"FileServer", "Redir"}
    \/ d.kind = "ReverseProxy" /\ matches_pattern(d.pattern, path)

TerminalAt(hc, path) == {i \in 1..Len(hc) : Terminal(hc[i], path)}

\* The index of the first terminal directive, 0 when there is none.
FirstTerminal(hc, path) ==
    IF TerminalAt(hc, path) = {} THEN 0 ELSE Min(TerminalAt(hc, path))

\* The last directive the scan looked at (0: none).
Reached(o) == IF o.evaluated = <<>> THEN 0 ELSE o.evaluated[Len(o.evaluated)]

\* C1: the scan evaluates the directives in list order up to and including
\* the first one that is terminal for the request and none after it; every
\* response is written by that first terminal directive (a ReverseProxy
\* that does not match never ends the scan), and it writes exactly one
\* unless the task panics inside it; without a terminal directive the whole
\* list is evaluated and only the fallback writes.
C1_FirstTerminalDecides ==
    scanned =>
      LET hc == call.host_config
          k == FirstTerminal(hc, call.path)
          last == IF k = 0 THEN Len(hc) ELSE k
      IN  /\ out.evaluated = [j \in 1..last |-> j]
          /\ \A w \in 1..Len(out.written) : out.written[w].src = k
          /\ k # 0 => Len(out.written) = 1 \/ (out.panicked /\ hc[k].kind = "FileServer")
          /\ k = 0 => Len(out.written) = 1 /\ ~out.panicked

\* C1 witness: a ReverseProxy that does not match is passed over, a later
\* FileServer or Redir answers, and a directive after that one is left
\* unevaluated.
C1_Witness ==
    /\ scanned
    /\ LET hc == call.host_config
           k == FirstTerminal(hc, call.path)
       IN  /\ k > 1 /\ k < Len(hc)
           /\ hc[k].kind \in {"FileServer", "Redir"}
           /\ \E j \in 1..(k - 1) :
                 hc[j].kind = "ReverseProxy" /\ ~matches_pattern(hc[j].pattern, call.path)
           /\ Len(out.written) = 1 /\ out.written[1].src = k

\* The Root directives before index k whose pattern matches the path.
MatchingRootsBefore(hc, k, path) ==
    {j \in 1..(k - 1) : hc[j].kind = "Root" /\ matches_pattern(hc[j].pattern, path)}

\* C2: when a FileServer is reached, the root_path handed to file_server is
\* the path of the last Root before it whose pattern matches the request
\* path, and unset when there is none; and file_server is called only then.
C2_LastMatchingRootWins ==
    scanned =>
      LET hc == call.host_config
          k == Reached(out)
          fs_reached == k # 0 /\ hc[k].kind = "FileServer"
          roots == MatchingRootsBefore(hc, k, call.path)
      IN  /\ is_some(out.fs_root) <=> fs_reached
          /\ fs_reached =>
                unwrap(out.fs_root) =
                  IF roots = {} THEN None ELSE Some(hc[Max(roots)].path)

\* C2 witness: two matching Roots with different paths precede the
\* FileServer, and the later one's path is the one handed over.
C2_Witness ==
    /\ scanned
    /\ LET hc == call.host_config
           k == Reached(out)
       IN  /\ k = 3 /\ hc[3].kind = "FileServer"
           /\ hc[1].kind = "Root" /\ hc[2].kind = "Root"
           /\ hc[1].pattern = <<"*">> /\ hc[2].pattern = <<"/", "a", "*">>
           /\ matches_pattern(hc[2].pattern, call.path)
           /\ hc[1].path # hc[2].path
           /\ out.fs_root = Some(Some(hc[2].path))

\* The target the file resolver is specified to open: root joined with the
\* request path without its leading slashes, index.html appended when that
\* is a directory.
SpecTarget(root, path, is_dir) ==
    LET rel == trim_start_matches(path, "/")
        joined == IF root[Len(root)] = "/" THEN root \o rel ELSE root \o <<"/">> \o rel
    IN  IF is_dir
        THEN (IF joined[Len(joined)] = "/" THEN joined ELSE joined \o <<"/">>)
             \o INDEX_HTML
        ELSE joined

\* C7 (as claimed): a FileServer that is reached answers 500 when no Root
\* has set root_path, 200 with Content-Length equal to the file's size when
\* the target opens, and 404 when it does not.
C7_FileServerStatus ==
    scanned /\ is_some(out.fs_root) =>
      LET root == unwrap(out.fs_root)
          fs == unwrap(out.fs_seen)
      IN  /\ Len(out.written) = 1
          /\ LET r == out.written[1].resp
             IN  IF ~is_some(root) THEN r.status = INTERNAL_SERVER_ERROR
                 ELSE IF fs.opens
                      THEN /\ r.status = OK
                           /\ r.content_length = Some(fs.size)
                           /\ r.file = Some(SpecTarget(unwrap(root), call.path, fs.dir))
                      ELSE r.status = NOT_FOUND

\* C8 (as claimed): a matching ReverseProxy answers 502 whenever the
\* outbound exchange fails at any point, the receipt of the upstream body
\* included, and otherwise mirrors status, headers and the full body.
C8_ProxyMirrorsOr502 ==
    scanned /\ is_some(out.up_seen) =>
      LET up == unwrap(out.up_seen)
      IN  /\ Len(out.written) = 1
          /\ LET r == out.written[1].resp
             IN  IF up.send /\ up.bytes
                 THEN /\ r.status = up.status
                      /\ r.mirrored = Some(up.headers)
                      /\ r.body = up.body
                 ELSE r.status = BAD_GATEWAY

\* C13 (as claimed): every dispatch writes exactly one response; it is the
\* fallback 404 exactly when no terminal directive fired, and a directive's
\* own response, whatever its status and whether or not its write reached
\* the client, is never followed by the fallback.
C13_ExactlyOneResponse ==
    scanned =>
      LET k == FirstTerminal(call.host_config, call.path)
      IN  /\ Len(out.written) = 1
          /\ out.written[1].src = 0 <=> k = 0
          /\ k = 0 => out.written[1].resp = error_response(NOT_FOUND)
          /\ k = 0 <=> ~out.handled

(***************************************************************************)
(* SpecRedir: the directive scan applied to lists that hold a Redir, over  *)
(* destinations put together from up to MaxPieces pieces (the token, parts *)
(* of it, plain text) and over paths that may themselves hold the token.   *)
(***************************************************************************)
RECURSIVE Flatten(_)
Flatten(ss) == IF ss = <<>> THEN <<>> ELSE Head(ss) \o Flatten(Tail(ss))

GO == <<"/", "g", "o", "/">>
HERE == <<"/", "h", "e", "r", "e">>
DestPieces == {GO, URI_TOKEN, <<"{">>, <<"}">>}
RedirDests == {Flatten(ps) : ps \in Strs(DestPieces, MaxPieces)}
RedirPaths == Paths \cup {HERE, <<"/">> \o URI_TOKEN}
RedirLists(d) ==
    {<<Redir(d)>>,
     <<Tls("c", "k"), Redir(d), FileServer>>,
     <<Root(<<"*">>, <<"w">>), ReverseProxy(<<"/", "a">>, Upstream), Redir(d)>>}

RedirInit ==
    /\ call \in [host_config : UNION {RedirLists(d) : d \in RedirDests},
                  path : RedirPaths]
    /\ ret = None
    /\ NoServer

SpecRedir == RedirInit /\ [][ScanNext]_vars

(***************************************************************************)
(* Claims about the Redir arm (checked under SpecRedir).                   *)
(***************************************************************************)
\* Where the token occurs in a destination.  The token cannot overlap
\* itself, so the occurrences are disjoint.
Occurrences(d) ==
    {i \in 1..Len(d) : i + 4 <= Len(d) /\ SubSeq(d, i, i + 4) = URI_TOKEN}

\* The destination with each occurrence of the token replaced by the path:
\* character by character, an occurrence gives the path, the rest of an
\* occurrence gives nothing, any other character gives itself.
Substituted(d, path) ==
    Flatten([i \in 1..Len(d) |->
               IF i \in Occurrences(d) THEN path
               ELSE IF \E j \in Occurrences(d) : j < i /\ i <= j + 4 THEN <<>>
               ELSE <<d[i]>>])

\* What a Redir that the scan reaches does: it is the last directive
\* evaluated and writes the one response, 302 Found with an empty body and
\* a Location that is its destination with every occurrence of {uri}
\* replaced by the request path (the destination itself when the token does
\* not occur).
RedirContract ==
    LET hc == call.host_config
        redirs == {i \in 1..Len(out.evaluated) : hc[out.evaluated[i]].kind = "Redir"}
    IN  \A i \in redirs :
          LET k == out.evaluated[i]
              d == hc[k].destination
          IN  /\ k = Reached(out)
              /\ out.handled /\ ~out.panicked
              /\ Len(out.written) = 1 /\ out.written[1].src = k
              /\ out.written[1].resp.status = FOUND
              /\ out.written[1].resp.body = <<>>
              /\ out.written[1].resp.location = Some(Substituted(d, call.path))
              /\ Occurrences(d) = {} => out.written[1].resp.location = Some(d)

\* The run of the example: destination "/go/{uri}", request path "/here".
GoHere ==
    /\ scanned /\ call.path = HERE
    /\ Reached(out) # 0
    /\ call.host_config[Reached(out)] = Redir(GO \o URI_TOKEN)

\* C14 (amended): a Redir that is reached ends the scan with 302 Found, an
\* empty body and its destination with every {uri} replaced by the request
\* path; the path keeps its leading '/', so "/go/{uri}" with path /here
\* gives Location: /go//here.
C14_RedirLocation ==
    scanned =>
      /\ RedirContract
      /\ GoHere => out.written[1].resp.location = Some(GO \o HERE)

\* C14 witness: the example ran, and its Location holds the whole path.
C14_Witness ==
    /\ GoHere
    /\ Len(call.host_config) = 3 /\ Reached(out) = 2
    /\ Len(out.written) = 1
    /\ out.written[1].resp.status = FOUND
    /\ out.written[1].resp.location = Some(<<"/", "g", "o", "/", "/", "h", "e", "r", "e">>)

\* C14 (as claimed): the same, with the example's Location as /go/here.
C14_RedirExampleAsClaimed ==
    scanned =>
      /\ RedirContract
      /\ GoHere => out.written[1].resp.location = Some(GO \o Tail(HERE))

(***************************************************************************)
(* SpecMatch: matches_pattern applied to every pattern and every path of   *)
(* up to MaxPathLen characters, '*' anywhere in either.                    *)
(***************************************************************************)
MatchChars == {"/", "a", "b", "*"}
MatchStrings == Strs(MatchChars, MaxPathLen)

MatchInit ==
    /\ call \in [pattern : MatchStrings, path : MatchStrings]
    /\ ret = None
    /\ NoServer

Match ==
    /\ ret = None
    /\ ret' = Some(matches_pattern(call.pattern, call.path))
    /\ UNCHANGED <<call, server_vars>>

MatchNext == Match

SpecMatch == MatchInit /\ [][MatchNext]_vars

(***************************************************************************)
(* Claims about matches_pattern (checked under SpecMatch).                 *)
(***************************************************************************)
\* The three cases of the pattern language, character by character.
MatchExpected(pattern, path) ==
    LET n == Len(pattern)
        starred == n > 0 /\ pattern[n] = "*"
    IN  \/ pattern = <<"*">>
        \/ /\ starred
           /\ Len(path) >= n - 1
           /\ \A i \in 1..(n - 1) : path[i] = pattern[i]
        \/ /\ ~starred
           /\ Len(path) = n
           /\ \A i \in 1..n : path[i] = pattern[i]

\* C15: matches_pattern is true exactly when the pattern is "*", or ends in
\* '*' and the path starts with the pattern less that '*', or does not end
\* in '*' and equals the path; ("*", any), ("/a*", "/ab") and ("/a", "/a")
\* match, ("/a*", "/b") and ("/a", "/ab") do not.
C15_MatchesPattern ==
    scanned =>
      /\ out = MatchExpected(call.pattern, call.path)
      /\ call.pattern = <<"*">> => out
      /\ call = [pattern |-> <<"/", "a", "*">>, path |-> <<"/", "a", "b">>] => out
      /\ call = [pattern |-> <<"/", "a">>, path |-> <<"/", "a">>] => out
      /\ call = [pattern |-> <<"/", "a", "*">>, path |-> <<"/", "b">>] => ~out
      /\ call = [pattern |-> <<"/", "a">>, path |-> <<"/", "a", "b">>] => ~out

\* C15 witness: the exact pattern "/a" was tried on the longer path "/ab"
\* and did not match.
C15_Witness ==
    /\ scanned
    /\ call = [pattern |-> <<"/", "a">>, path |-> <<"/", "a", "b">>]
    /\ out = FALSE

(***************************************************************************)
(* SpecProcess: directive_process applied to one connection.  Two families *)
(* of calls: every bounded host table against every Host header (on a      *)
(* well-formed request), and every bounded byte stream against one server. *)
(***************************************************************************)
HostKeys == {<<"a">>, <<"b">>, <<"*">>, <<"*", "a">>, <<"a", ":", "8">>}
HostValues == HostKeys \cup {<<"c">>, <<"~">>, <<"a", "~">>}
\* Each host's own directive list: a redirect that names the host.
SiteOf(k) == <<Redir(<<"/">> \o k)>>
HostTables ==
    {[k \in K |-> SiteOf(k)] :
        K \in {K \in SUBSET HostKeys : K # {} /\ Cardinality(K) <= MaxHosts}}
Requests ==
    {Request(h, p) : h \in {None} \cup {Some(v) : v \in HostValues},
                     p \in {<<"/">>, <<"/", "a">>}}
GoodStream == <<"G", CR, LF, "G", CR, LF>> \o CRLFCRLF
WriteEnvs == {e \in Envs : e.fs = QuietFs /\ e.up = QuietUp}

HostCalls ==
    [server : {Server(80, t, None, None) : t \in HostTables},
     stream : {GoodStream}, close : {"eof"},
     tokens : {Some(r) : r \in Requests}]
FrameCalls ==
    [server : {Server(80, [k \in {<<"a">>} |-> SiteOf(k)], None, None)},
     stream : Strs(Bytes, MaxStream), close : Closes,
     tokens : {None, Some(Request(Some(<<"a">>), <<"/">>))}]

ProcessInit ==
    /\ call \in HostCalls \cup FrameCalls
    /\ ret = None
    /\ NoServer

Process ==
    /\ ret = None
    /\ \E first \in FirstWildcards(call.server.hosts), env \in WriteEnvs :
         ret' = Some(directive_process(call.server, call.stream, call.close,
                                       call.tokens, first, env))
    /\ UNCHANGED <<call, server_vars>>

ProcessNext == Process

SpecProcess == ProcessInit /\ [][ProcessNext]_vars

(***************************************************************************)
(* Claims about host selection and framing (checked under SpecProcess).    *)
(***************************************************************************)
\* The Host header as the claims read it: its value, the empty string when
\* the header is absent.
HostOf(request) == IF is_some(request.host) THEN unwrap(request.host) ELSE <<>>

Statuses(written) == {written[w].resp.status : w \in 1..Len(written)}

\* C3: on a host table without a wildcard key, a request with Host header H
\* runs the directive list stored under the key equal to H and no other
\* list; when no key equals H (an absent header reads as the empty string)
\* the one response is 403 Forbidden and no directive runs.
C3_ExactHostOnly ==
    scanned /\ is_some(out.request) /\ WildcardKeys(call.server.hosts) = {} =>
      LET hosts == call.server.hosts
          H == HostOf(unwrap(out.request))
      IN  IF H \in DOMAIN hosts
          THEN /\ out.selected = Some(H)
               /\ out.host_config = Some(hosts[H])
               /\ is_some(out.scan)
               /\ \A k \in DOMAIN hosts \ {H} : out.host_config # Some(hosts[k])
               /\ Statuses(out.written) = {FOUND}
               /\ out.written[1].resp.location = Some(<<"/">> \o H)
          ELSE /\ out.selected = None /\ out.host_config = None /\ out.scan = None
               /\ Len(out.written) = 1
               /\ out.written[1].resp = error_response(FORBIDDEN)

\* C3 witnesses: with two exact hosts on the port, a request for one of them
\* ran that host's list; a request naming neither was refused.
C3_Witness ==
    /\ scanned /\ is_some(out.request)
    /\ DOMAIN call.server.hosts = {<<"a">>, <<"b">>}
    /\ HostOf(unwrap(out.request)) = <<"b">>
    /\ out.host_config = Some(SiteOf(<<"b">>))

\* C4: when the host table has a key beginning with '*', every request is
\* dispatched with the directive list of a wildcard entry, whatever its Host
\* header; the exact-name lookup is not consulted and 403 is never sent.
C4_WildcardAlways ==
    scanned /\ is_some(out.request) /\ WildcardKeys(call.server.hosts) # {} =>
      /\ is_some(out.selected)
      /\ unwrap(out.selected) \in WildcardKeys(call.server.hosts)
      /\ out.host_config = Some(call.server.hosts[unwrap(out.selected)])
      /\ FORBIDDEN \notin Statuses(out.written)
      /\ out.written[1].resp.location = Some(<<"/">> \o unwrap(out.selected))

\* C4 witness: the Host header names an exact key of the table, and the
\* wildcard entry's list ran all the same.
C4_Witness ==
    /\ scanned /\ is_some(out.request)
    /\ DOMAIN call.server.hosts = {<<"a">>, <<"*">>}
    /\ HostOf(unwrap(out.request)) = <<"a">>
    /\ out.host_config = Some(SiteOf(<<"*">>))

\* The stream holds the header terminator.
Terminated(stream) ==
    \E i \in 1..Len(stream) : i + 3 <= Len(stream) /\ SubSeq(stream, i, i + 3) = CRLFCRLF

\* The bytes up to and including the first terminator.
HeaderBlock(stream) ==
    SubSeq(stream, 1,
           3 + Min({i \in 1..Len(stream) :
                      i + 3 <= Len(stream) /\ SubSeq(stream, i, i + 3) = CRLFCRLF}))

\* C9 (as claimed): when the client closes the connection before a header
\* terminator, or the header block is not UTF-8, or the parser rejects it,
\* the server does not panic, no request is produced, no host is selected,
\* no directive runs, and the connection gets nothing or 400 Bad Request.
C9_MalformedNeverPanics ==
    scanned /\ ( \/ ~Terminated(call.stream)
                 \/ ~is_some(from_utf8(HeaderBlock(call.stream)))
                 \/ call.tokens = None ) =>
      /\ ~out.panicked
      /\ out.request = None /\ out.selected = None /\ out.scan = None
      /\ Statuses(out.written) \subseteq {BAD_REQUEST}

\* C20 (as claimed): for every byte stream and every way the connection
\* ends, the bytes read_from_socket hands on are the stream up to and
\* including its first \r\n\r\n, or the whole stream when the connection
\* closed before one was sent; and a connection closed before any byte
\* yields no request.
C20_FramedPrefix ==
    scanned =>
      /\ out.buf = Some(IF Terminated(call.stream) THEN HeaderBlock(call.stream)
                        ELSE call.stream)
      /\ call.stream = <<>> => out.request = None /\ out.scan = None

(***************************************************************************)
(* SpecBoot: main's bootstrap applied to a configuration.  Host names are  *)
(* a name, optionally followed by ':' and a suffix (numeric or not).       *)
(* Single-host configurations range over every such name up to MaxHostLen; *)
(* configurations of several hosts range over names that share ports.      *)
(***************************************************************************)
HostChars == {"a", "*", ":", "8", "0"}
HostNames ==
    {h \in Strs(HostChars, MaxHostLen) :
        h # <<>> /\ Cardinality({i \in 1..Len(h) : h[i] = ":"}) <= 1}
SharedHosts ==
    {<<"a">>, <<"b">>, <<"a", ":", "8">>, <<"*", ":", "8">>, <<"b", ":", "8">>,
     <<"b", ":", "8", "0">>}
BootLists ==
    {<<FileServer>>,
     <<Tls("c1", "k1"), FileServer>>,
     <<Tls("c1", "k1"), FileServer, Tls("c2", "k2")>>}
BootConfigs ==
    UNION {[K -> BootLists] :
             K \in {{h} : h \in HostNames}
                   \cup {K \in SUBSET SharedHosts :
                           Cardinality(K) >= 2 /\ Cardinality(K) <= MaxHosts}}

BootInit ==
    /\ call \in [config : BootConfigs]
    /\ ret = None
    /\ NoServer

Boot ==
    /\ ret = None
    /\ \E order \in Orders(DOMAIN call.config) :
         LET b == bootstrap(call.config, order, 1, <<>>)
         IN  ret' = Some([order |-> order, servers |-> b.servers, aborted |-> b.aborted])
    /\ UNCHANGED <<call, server_vars>>

BootNext == Boot

SpecBoot == BootInit /\ [][BootNext]_vars

(***************************************************************************)
(* Claims about the bootstrap (checked under SpecBoot).                    *)
(***************************************************************************)
\* The text after the last ':' of a host name.
Suffix(h) == SubSeq(h, Max({i \in 1..Len(h) : h[i] = ":"}) + 1, Len(h))

\* The port a host is specified to listen on.
ExpectedPort(h, directives) ==
    IF contains(h, ":") THEN decimal(Suffix(h))
    ELSE IF \E i \in 1..Len(directives) : directives[i].kind = "Tls" THEN 443
    ELSE 80

\* The hosts placed in some group.
Placed(srvs) == UNION {DOMAIN srvs[p].hosts : p \in DOMAIN srvs}

\* C10: every host is placed in the group of its explicit numeric suffix
\* when its name contains ':' (with or without a Tls directive), else in
\* the group of 443 when it has a Tls directive, else in the group of 80.
C10_PortOfHost ==
    scanned =>
      /\ \A p \in DOMAIN out.servers : \A h \in DOMAIN out.servers[p].hosts :
            p = ExpectedPort(h, call.config[h])
      /\ ~out.aborted => Placed(out.servers) = DOMAIN call.config

\* C10 witness: a host with both a ':' suffix and a Tls directive sits in the
\* group of its suffix, not in that of 443.
C10_Witness ==
    /\ scanned /\ ~out.aborted
    /\ DOMAIN call.config = {<<"a", ":", "8", "0">>}
    /\ call.config[<<"a", ":", "8", "0">>] = <<Tls("c1", "k1"), FileServer>>
    /\ DOMAIN out.servers = {80}
    /\ out.servers[80].cert = Some("c1")

\* The groups that hold host h.
GroupsOf(srvs, h) == {p \in DOMAIN srvs : h \in DOMAIN srvs[p].hosts}

\* C11: after a bootstrap that ran to its end, each group's port field is
\* its key in the map, every configured host sits in exactly one group, the
\* group of its inferred port, with its own directive list unchanged, and
\* no group holds a host that was not configured.
C11_GroupsPartitionHosts ==
    scanned /\ ~out.aborted =>
      /\ \A p \in DOMAIN out.servers : out.servers[p].port = p
      /\ \A h \in DOMAIN call.config :
            /\ GroupsOf(out.servers, h) = {ExpectedPort(h, call.config[h])}
            /\ \A p \in GroupsOf(out.servers, h) :
                  out.servers[p].hosts[h] = call.config[h]
      /\ Placed(out.servers) \subseteq DOMAIN call.config

\* C11 witness: three hosts end in two groups, two of them merged into one
\* port, each with its own list.
C11_Witness ==
    /\ scanned /\ ~out.aborted
    /\ DOMAIN call.config = {<<"a">>, <<"a", ":", "8">>, <<"*", ":", "8">>}
    /\ call.config[<<"a", ":", "8">>] # call.config[<<"*", ":", "8">>]
    /\ DOMAIN out.servers = {8, 80}
    /\ DOMAIN out.servers[8].hosts = {<<"a", ":", "8">>, <<"*", ":", "8">>}
    /\ DOMAIN out.servers[80].hosts = {<<"a">>}

\* The host's directive list holds a Tls directive.
DeclaresTls(directives) == \E i \in 1..Len(directives) : directives[i].kind = "Tls"

\* The hosts of group p that declare TLS.
TlsHosts(p) == {h \in DOMAIN out.servers[p].hosts : DeclaresTls(call.config[h])}

\* C16 (as claimed): a host without a Tls directive leaves its group's cert
\* and key as they were, so that after bootstrap, in whatever order the
\* hosts were processed, a group with at least one host that declares TLS
\* has a TLS identity.
C16_TlsIdentityKept ==
    scanned /\ ~out.aborted =>
      \A p \in DOMAIN out.servers :
        TlsHosts(p) # {} =>
          is_some(out.servers[p].cert) /\ is_some(out.servers[p].key)

\* The place of host h in the order in which the hosts were processed.
PlaceOf(h) == CHOOSE i \in 1..Len(out.order) : out.order[i] = h

\* The last Tls directive of a list that holds one.
LastTls(directives) ==
    directives[Max({i \in 1..Len(directives) : directives[i].kind = "Tls"})]

\* C17 (as claimed): a group's cert is set exactly when its key is, and a
\* group into which two or more hosts that declare TLS were merged ends
\* with the cert and key of the last Tls directive of the one of them that
\* was processed last.
C17_LastTlsHostWins ==
    scanned /\ ~out.aborted =>
      \A p \in DOMAIN out.servers :
        /\ is_some(out.servers[p].cert) <=> is_some(out.servers[p].key)
        /\ Cardinality(TlsHosts(p)) >= 2 =>
              LET last == CHOOSE h \in TlsHosts(p) :
                             \A g \in TlsHosts(p) : PlaceOf(g) <= PlaceOf(h)
                  tls == LastTls(call.config[last])
              IN  /\ out.servers[p].cert = Some(tls.cert)
                  /\ out.servers[p].key = Some(tls.key)

(***************************************************************************)
(* Spec: the server.  main builds the servers and spawns one task per      *)
(* Server; each task sets up TLS, binds, and loops over accept, the TLS    *)
(* handshake and directive_process.                                        *)
(***************************************************************************)
ServeConfigs ==
    { (<<"a">> :> <<Root(<<"*">>, <<"w">>), FileServer>>)
        @@ (<<"b">> :> <<Tls("c1", "k1"), ReverseProxy(<<"*">>, Upstream)>>),
      (<<"a", ":", "8">> :> <<Redir(RedirDest)>>)
        @@ (<<"*", ":", "8">> :> <<Root(<<"*">>, <<"w">>), FileServer>>)
        @@ (<<"b">> :> <<Tls("c1", "k1"), Redir(RedirDest)>>),
      (<<"a">> :> <<Redir(RedirDest)>>)
        @@ (<<"b">> :> <<ReverseProxy(<<"/", "a", "*">>, Upstream)>>),
      (<<"a", ":", "8">> :> <<Redir(RedirDest)>>)
        @@ (<<"b", ":", "8">> :> <<Root(<<"*">>, <<"w">>), FileServer>>),
      (<<"a", ":", "a">> :> <<FileServer>>) }

\* What a client may send on one connection: a complete header block, as
\* the parser may read it, or bytes that never reach the parser's reading
\* (no terminator, or not UTF-8).
ServeCalls ==
    [stream : {GoodStream}, close : Closes,
     tokens : {None, Some(Request(Some(<<"a">>), <<"/">>)),
               Some(Request(Some(<<"a", ":", "8">>), <<"/">>)),
               Some(Request(Some(<<"c">>), <<"/">>)),
               Some(Request(None, <<"/", "a">>))}]
    \cup [stream : {<<"G", CR, LF>>, <<"xFF">> \o CRLFCRLF}, close : Closes,
          tokens : {None}]

\* The environments a connection may meet.  What is kept of a connection
\* (Summary) does not depend on the file's size, on the target being a
\* directory or on the upstream body, so these are held fixed here.
ServeEnvs ==
    {e \in Envs : /\ ~e.fs.dir /\ e.fs.size = 0
                  /\ e.up.body = <<>> /\ e.up.bytes}

Task(pc, why) == [pc |-> pc, why |-> why]

\* Lines 108-120: the TLS acceptor and the listener.  tls_ok: the PEM files
\* load and make a ServerConfig; bind_ok: TcpListener::bind succeeds.
server_start(server, tls_ok, bind_ok) ==
    IF is_some(server.cert) /\ ~is_some(server.key) THEN Task("ended", "panic")
    ELSE IF is_some(server.cert) /\ ~tls_ok THEN Task("ended", "tls")
    ELSE IF ~bind_ok THEN Task("ended", "bind")
    ELSE Task("accept", "")

\* Lines 92-99: the wrapper main spawns around server_task; where main is
\* once the task has returned `result`.  An Err is logged, nothing more.
spawned_fatal(pc, result) == IF result.pc = "ended" THEN "aborted" ELSE pc

spawned(pc, result) == pc

\* Lines 124-131: what follows a successful accept.
after_accept_spawned(server) == "accept"

after_accept_plain(server) == "process"

after_accept(server) == IF is_some(server.cert) THEN "handshake" ELSE "process"

\* What is kept of a connection once its handling has ended.
Summary(handshake, o) ==
    [handshake |-> handshake, request |-> is_some(o.request),
     host |-> IF is_some(o.request) THEN Some(host_header(unwrap(o.request))) ELSE None,
     selected |-> o.selected,
     statuses |-> [w \in 1..Len(o.written) |-> o.written[w].resp.status],
     panicked |-> o.panicked]

Dropped == Processed(None, None, None, None, <<>>, FALSE, None)

Init ==
    /\ call \in [config : ServeConfigs]
    /\ ret = None
    /\ main_pc = "boot"
    /\ servers = <<>> /\ task = <<>>
    /\ accepted = <<>> /\ finished = <<>> /\ lastconn = <<>>

\* main, lines 52-100: build the servers, spawn a task for each.
Main ==
    /\ main_pc = "boot"
    /\ \E order \in Orders(DOMAIN call.config) :
         LET b == bootstrap(call.config, order, 1, <<>>)
         IN  IF b.aborted
             THEN /\ main_pc' = "aborted"
                  /\ UNCHANGED <<servers, task, accepted, finished, lastconn>>
             ELSE /\ main_pc' = "running"
                  /\ servers' = b.servers
                  /\ task' = [p \in DOMAIN b.servers |-> Task("start", "")]
                  /\ accepted' = [p \in DOMAIN b.servers |-> 0]
                  /\ finished' = [p \in DOMAIN b.servers |-> 0]
                  /\ lastconn' = [p \in DOMAIN b.servers |-> None]
    /\ UNCHANGED <<call, ret>>

\* main, line 102: the interrupt ends the process and its tasks with it.
CtrlC ==
    /\ main_pc = "running"
    /\ main_pc' = "exited"
    /\ UNCHANGED <<call, ret, servers, task, accepted, finished, lastconn>>

\* server_task, lines 108-120.
Start(p) ==
    /\ main_pc = "running" /\ task[p].pc = "start"
    /\ \E tls_ok \in BOOLEAN, bind_ok \in BOOLEAN :
         LET result == server_start(servers[p], tls_ok, bind_ok)
         IN  /\ task' = [task EXCEPT ![p] = result]
             /\ main_pc' = spawned(main_pc, result)
    /\ UNCHANGED <<call, ret, servers, accepted, finished, lastconn>>

\* server_task, line 123: `listener.accept().await?`.
Accept(p) ==
    /\ main_pc = "running" /\ task[p].pc = "accept"
    /\ accepted[p] < MaxConns
    /\ \E ok \in BOOLEAN :
         IF ok
         THEN /\ accepted' = [accepted EXCEPT ![p] = @ + 1]
              /\ task' = [task EXCEPT ![p] = Task(after_accept(servers[p]), "")]
              /\ UNCHANGED main_pc
         ELSE /\ task' = [task EXCEPT ![p] = Task("ended", "accept")]
              /\ main_pc' = spawned(main_pc, Task("ended", "accept"))
              /\ UNCHANGED accepted
    /\ UNCHANGED <<call, ret, servers, finished, lastconn>>

\* server_task, lines 129-136: the TLS handshake.
Handshake(p) ==
    /\ main_pc = "running" /\ task[p].pc = "handshake"
    /\ \E ok \in BOOLEAN :
         IF ok
         THEN /\ task' = [task EXCEPT ![p] = Task("process", "")]
              /\ UNCHANGED <<finished, lastconn>>
         ELSE /\ task' = [task EXCEPT ![p] = Task("accept", "")]
              /\ finished' = [finished EXCEPT ![p] = @ + 1]
              /\ lastconn' = [lastconn EXCEPT ![p] = Some(Summary("failed", Dropped))]
    /\ UNCHANGED <<call, ret, main_pc, servers, accepted>>

\* server_task, lines 126 and 131: directive_process on the connection.  A
\* panic inside it unwinds the task.
Serve(p) ==
    /\ main_pc = "running" /\ task[p].pc = "process"
    /\ \E c \in ServeCalls, first \in FirstWildcards(servers[p].hosts), env \in ServeEnvs :
         LET o == directive_process(servers[p], c.stream, c.close, c.tokens, first, env)
         IN  /\ lastconn' = [lastconn EXCEPT ![p] =
                     Some(Summary(IF is_some(servers[p].cert) THEN "done" ELSE "none", o))]
             /\ task' = [task EXCEPT ![p] =
                     IF o.panicked THEN Task("ended", "panic") ELSE Task("accept", "")]
    /\ finished' = [finished EXCEPT ![p] = @ + 1]
    /\ UNCHANGED <<call, ret, main_pc, servers, accepted>>

Next ==
    \/ Main
    \/ CtrlC
    \/ \E p \in DOMAIN task : Start(p)
    \/ \E p \in DOMAIN task : Accept(p)
    \/ \E p \in DOMAIN task : Handshake(p)
    \/ \E p \in DOMAIN task : Serve(p)

Spec == Init /\ [][Next]_vars

(***************************************************************************)
(* Claims about the accept loop (checked under Spec).                      *)
(***************************************************************************)
InFlight(p) == accepted[p] - finished[p]

\* C5 (as claimed): no per-request error ends a group's task: a task that
\* has ended did so at start-up (TLS material or bind), never because of an
\* accepted connection or of accept itself.
C5_RequestErrorsStayLocal ==
    \A p \in DOMAIN task : task[p].pc = "ended" => task[p].why \in {"tls", "bind"}

\* C6: per port at most one connection is in flight, and one is in flight
\* exactly while the task is in its handshake or in directive_process, so
\* the next accept comes only after the handling has ended.
C6_OneConnectionPerPort ==
    \A p \in DOMAIN task :
      /\ InFlight(p) \in {0, 1}
      /\ InFlight(p) = 1 <=> task[p].pc \in {"handshake", "process"}
      /\ task[p].pc = "accept" => InFlight(p) = 0

\* C6 witness: a port handles its second connection after its first has
\* ended, while another port has a connection of its own in flight.
C6_Witness ==
    \E p, q \in DOMAIN task :
      /\ p # q
      /\ accepted[p] = 2 /\ finished[p] = 1 /\ task[p].pc = "process"
      /\ InFlight(q) = 1

\* A group's task ended while starting: its TLS material did not load or its
\* bind failed.
FailedToStart(p) == task[p].pc = "ended" /\ task[p].why \in {"tls", "bind"}

\* C12: a group's failure to start ends that group's task and nothing else:
\* the step leaves main waiting for the interrupt and every other task, with
\* its connections, as it was, and main never ends because a group failed
\* to start.
C12_StartFailureStaysLocal ==
    /\ [](\A p \in DOMAIN task : FailedToStart(p) => main_pc \in {"running", "exited"})
    /\ [][\A p \in DOMAIN task :
            task[p].pc = "start" /\ task'[p].pc = "ended" =>
              /\ main_pc' = "running"
              /\ \A q \in DOMAIN task \ {p} :
                    /\ task'[q] = task[q]
                    /\ accepted'[q] = accepted[q] /\ finished'[q] = finished[q]
                    /\ lastconn'[q] = lastconn[q]]_vars

\* C12 witness: one group failed to bind; another is bound, has answered a
\* connection and is accepting again, and main is still waiting for the
\* interrupt.
C12_Witness ==
    /\ main_pc = "running"
    /\ \E p, q \in DOMAIN task :
         /\ p # q
         /\ task[p] = Task("ended", "bind")
         /\ task[q].pc = "accept" /\ finished[q] >= 1
         /\ is_some(lastconn[q]) /\ unwrap(lastconn[q]).statuses # <<>>

\* A configured host name without its ':port' suffix.
Bare(h) ==
    IF contains(h, ":") THEN SubSeq(h, 1, Min({i \in 1..Len(h) : h[i] = ":"}) - 1)
    ELSE h

\* The last connection of port p carried a request with Host header H.
LastAsked(p, H) ==
    is_some(lastconn[p]) /\ unwrap(lastconn[p]).host = Some(H)

\* C18 (amended): every key of a group's host table is a configured host
\* name in full, ':port' suffix included; on a group without a wildcard a
\* host configured as name:port is selected by the Host header name:port,
\* and the Host header name, unless it is itself a key, gets 403 Forbidden.
C18_KeysAreConfiguredNames ==
    \A p \in DOMAIN servers :
      /\ DOMAIN servers[p].hosts \subseteq DOMAIN call.config
      /\ \A h \in DOMAIN servers[p].hosts :
            WildcardKeys(servers[p].hosts) = {} /\ contains(h, ":") =>
              /\ LastAsked(p, h) => unwrap(lastconn[p]).selected = Some(h)
              /\ LastAsked(p, Bare(h)) /\ Bare(h) \notin DOMAIN servers[p].hosts =>
                    /\ unwrap(lastconn[p]).selected = None
                    /\ unwrap(lastconn[p]).statuses = <<FORBIDDEN>>

\* C18 witness: port 8 holds the hosts configured as a:8 and b:8, and a
\* request with Host: a on that port was refused.
C18_Witness ==
    /\ 8 \in DOMAIN servers
    /\ DOMAIN servers[8].hosts = {<<"a", ":", "8">>, <<"b", ":", "8">>}
    /\ LastAsked(8, <<"a">>)
    /\ unwrap(lastconn[8]).statuses = <<FORBIDDEN>>

\* C18 (as claimed): every key of a group's host table is a configured name
\* without its ':port' suffix, and a host configured as name:port is
\* selected by the Host header name.
C18_KeysAreBareNames ==
    \A p \in DOMAIN servers :
      /\ DOMAIN servers[p].hosts = {Bare(h) : h \in {g \in DOMAIN call.config :
                                                       ExpectedPort(g, call.config[g]) = p}}
      /\ \A h \in DOMAIN call.config :
            WildcardKeys(servers[p].hosts) = {} /\ ExpectedPort(h, call.config[h]) = p
            /\ LastAsked(p, Bare(h)) => is_some(unwrap(lastconn[p]).selected)

\* Group p has a TLS identity.
Secure(p) == is_some(servers[p].cert)

\* C19: on a group with a TLS identity a connection is handed to
\* directive_process only by a handshake that succeeded, and accepting it
\* processes nothing; a handshake that fails ends the connection with no
\* request read, no host selected and no response, and puts the task back
\* at accept.
C19_HandshakeBeforeProcessing ==
    /\ [](\A p \in DOMAIN task :
            Secure(p) /\ is_some(lastconn[p]) =>
              LET c == unwrap(lastconn[p])
              IN  /\ c.handshake \in {"done", "failed"}
                  /\ c.handshake = "failed" =>
                        /\ ~c.request /\ c.selected = None
                        /\ c.statuses = <<>> /\ ~c.panicked)
    /\ [][\A p \in DOMAIN task :
            Secure(p) =>
              /\ task'[p].pc = "process" /\ task[p].pc # "process" =>
                    task[p].pc = "handshake"
              /\ task[p].pc = "accept" /\ accepted'[p] # accepted[p] =>
                    /\ task'[p].pc = "handshake"
                    /\ finished'[p] = finished[p] /\ lastconn'[p] = lastconn[p]
              /\ task[p].pc = "handshake" /\ task'[p].pc # "handshake" =>
                    \/ task'[p].pc = "process" /\ finished'[p] = finished[p]
                                              /\ lastconn'[p] = lastconn[p]
                    \/ /\ task'[p] = Task("accept", "")
                       /\ finished'[p] = finished[p] + 1
                       /\ lastconn'[p] = Some(Summary("failed", Dropped))]_vars

\* C19 witness: on a TLS port the first connection's handshake failed and
\* the connection was dropped; the second was accepted, passed its
\* handshake and is being processed.
C19_Witness ==
    \E p \in DOMAIN task :
      /\ Secure(p)
      /\ accepted[p] = 2 /\ finished[p] = 1
      /\ lastconn[p] = Some(Summary("failed", Dropped))
      /\ task[p].pc = "process"

====
